---- MODULE Spec2Model ----
(***************************************************************************)
(* Model of power-mode/power-mode.py: the mode-application engine          *)
(* (ModeManager.apply_mode / restore_backup), the snapshot it saves and    *)
(* replays (Snapshot.save / load / restore) and the CPU / GPU managers it  *)
(* writes through.                                                         *)
(*                                                                         *)
(* The hardware is the sysfs state the managers read and write: one        *)
(* online flag, one scaling_governor and one scaling_max_freq per core,    *)
(* and the GPU power limit.  The files are modes.json, backup.json and     *)
(* active.json of the base directory.  Every command is a sequence of      *)
(* steps, one per manager call, driven by a program counter.               *)
(***************************************************************************)
EXTENDS Integers, FiniteSets, Sequences, TLC

\* ------------------------------------------------------------------ bounds
MaxCore == 2        \* cores are cpu0 .. cpuMaxCore
MaxOps == 2         \* commands run in a behaviour whose environment may fail;
                    \* a behaviour with a reliable environment runs one more
MaxFaults == 1      \* I/O failures and exceptions the environment injects

\* ------------------------------------------------------- program constants
MinFreqKHz == 400000
MaxFreqKHz == 6000000
MinPowerW == 10
MaxPowerW == 150

Cores == 0 .. MaxCore
AllProcs == {"cli", "cli2"}
\* "cli" is a shell that runs one command after the other; "cli2" is a single
\* invocation made from elsewhere while "cli" is at work.
OneShot == {"cli2"}
\* Effective user ids a caller may have: root and an ordinary user.
Uids == {0, 1000}

\* A file of the base directory: missing, present but not parsable as JSON, or
\* holding a document.
NoFile == [kind |-> "missing"]
Corrupt == [kind |-> "corrupt"]
File(doc) == [kind |-> "json", doc |-> doc]

\* Governors and frequencies the hardware may show before any command ran.
\* 6200000 kHz is a real scaling_max_freq above the range set_max_freq accepts.
HwGovernors == {"schedutil"}
HwFreqs == {3000000, 6200000}
\* GPU power limits in tenths of a watt (nvidia-smi prints "115.50").
HwPowerLimits == {1155}
\* 155.5 W: a limit above the range set_power_limit accepts.
HighPowerLimits == {1555}

\* A JSON value that may be a number or a string.
Num(n) == [type |-> "int", val |-> n]
Str(t) == [type |-> "str", val |-> t]

\* The catalog modes.json holds when it parses.  A mode is a record that has
\* only the keys its JSON object has.  "quiet" asks for a GPU power limit
\* below the range set_power_limit accepts.  "broken" gives max_freq_mhz as a
\* string, which json.load accepts.
ModesDoc ==
    [ turbo  |-> [ cpu |-> [ online_cores |-> {0, 1},
                             governor |-> "performance",
                             max_freq_mhz |-> Num(5000) ],
                   gpu |-> [ power_limit_w |-> 140 ] ],
      quiet  |-> [ cpu |-> [ online_cores |-> {0},
                             max_freq_mhz |-> Num(2000) ],
                   gpu |-> [ power_limit_w |-> 5 ] ],
      broken |-> [ cpu |-> [ online_cores |-> {0},
                             governor |-> "powersave",
                             max_freq_mhz |-> Str("2000") ] ] ]

\* Another catalog, of modes at the edges of what apply_mode accepts:
\* "overclock" asks for 7000 MHz, above the range set_max_freq accepts; "ghost"
\* lists a core the machine does not have; "nocores" gives an empty list.
EdgeModesDoc ==
    [ turbo     |-> ModesDoc.turbo,
      overclock |-> [ cpu |-> [ online_cores |-> {0, 1},
                                governor |-> "performance",
                                max_freq_mhz |-> Num(7000) ] ],
      ghost     |-> [ cpu |-> [ online_cores |-> {0, MaxCore + 1},
                                governor |-> "powersave" ] ],
      nocores   |-> [ cpu |-> [ online_cores |-> {},
                                max_freq_mhz |-> Num(400) ] ] ]

\* The names a caller may pass to apply: the catalog's and one it lacks.
ModeNames == DOMAIN ModesDoc \cup {"nonexistent"}

VARIABLES
    \* hardware
    online,             \* [Cores -> BOOLEAN]: cpuN/online reads 1
    scaling_governor,   \* [Cores -> STRING]
    scaling_max_freq,   \* [Cores -> Nat], kHz
    gpu_power_limit,    \* tenths of a watt
    nvidia_smi,         \* GPUManager.nvidia_smi is not None
    \* files of the base directory
    modes_file, backup_file, active_file,
    \* the running commands
    procs,              \* the invocations that exist in this behaviour
    pc, cmd, ret,       \* per invocation: step, command, returned value
    shown,              \* per invocation: what a read-only command printed
    mode,               \* apply_mode's local `mode`
    snap,               \* the snapshot restore replays
    \* history of the current command, per invocation
    pre,                \* the snapshot Snapshot.save captured in apply's step 1
    raised,             \* an exception escaped a step of apply's try block
    rollback,           \* "none", "noload", "ok", "failed"
    effects,            \* what the command wrote so far
    failed,             \* the kinds of write the command saw fail so far
    before,             \* what a capture returned when the command started
    \* history of the behaviour
    reliable,           \* the environment injects no failure in this behaviour
    euid,               \* os.geteuid() of the behaviour's invocations
    ops, faults,        \* commands started, failures injected
    baseline,           \* the hardware before the first command
    prev,               \* what the command before the current one did
    ran,                \* the kinds of command started so far
    failedEver,         \* the kinds of write that failed so far
    since,              \* successful applies since the last successful restore
    retSeen             \* values apply returned, by rollback outcome

hwvars == <<online, scaling_governor, scaling_max_freq, gpu_power_limit, nvidia_smi>>
filevars == <<modes_file, backup_file, active_file>>
procvars == <<procs, pc, cmd, ret, shown, mode, snap>>
opvars == <<pre, raised, rollback, effects, failed, before>>
histvars == <<reliable, euid, ops, faults, baseline, prev, ran, failedEver, since, retSeen>>
vars == <<hwvars, filevars, procvars, opvars, histvars>>

\* ---------------------------------------------------------------- CPUManager
\* How one call's writes went.  "ok": every write landed.  "skip" at core k:
\* the write to k raised FileNotFoundError or PermissionError, which the loop
\* logs and passes over.  "raise" at core k: the write to k raised anything
\* else, which leaves the loop and the method with the earlier writes done.
OkOutcome == [kind |-> "ok", core |-> 0]
FailOutcomes(targets) == [kind : {"skip", "raise"}, core : targets]

\* (WrittenUntilFailure: a skipped failure ends the loop like any exception.)
WrittenUntilFailure(c, out) ==
    \/ out.kind = "ok"
    \/ out.kind \in {"skip", "raise"} /\ c < out.core

\* Whether the loop wrote core c (cores come in ascending order).
Written(c, out) ==
    \/ out.kind = "ok"
    \/ out.kind = "skip" /\ c # out.core
    \/ out.kind = "raise" /\ c < out.core

\* get_online_cores: cpu0 always, cpuN when its online flag reads 1.
GetOnlineCores(on) == {c \in Cores : c = 0 \/ on[c]}

\* (SetOnlineCoresAll: cpu0 is written like every other core.)
SetOnlineCoresAll(on, cores, out) ==
    [c \in Cores |-> IF Written(c, out) THEN c \in cores ELSE on[c]]

\* (SetOnlineCoresOnlyUp: cores outside the list are not written.)
SetOnlineCoresOnlyUp(on, cores, out) ==
    [c \in Cores |-> IF c # 0 /\ Written(c, out) /\ c \in cores THEN TRUE ELSE on[c]]

\* set_online_cores: every core but cpu0 gets 1 when in `cores`, else 0.
SetOnlineCores(on, cores, out) ==
    [c \in Cores |-> IF c # 0 /\ Written(c, out) THEN c \in cores ELSE on[c]]

\* set_governor: the governor goes to every core online when the call starts.
SetGovernor(gov, on, governor, out) ==
    [c \in Cores |->
        IF c \in GetOnlineCores(on) /\ Written(c, out) THEN governor ELSE gov[c]]

\* (ValidFreqExclusive: the comparisons are <= and >=.)
ValidFreqExclusive(freq_khz) == ~(freq_khz <= MinFreqKHz \/ freq_khz >= MaxFreqKHz)

\* The sanity check of set_max_freq.
ValidFreq(freq_khz) == ~(freq_khz < MinFreqKHz \/ freq_khz > MaxFreqKHz)

\* set_max_freq: nothing is written for a frequency out of range.
SetMaxFreq(freq, on, freq_khz, out) ==
    IF ~ValidFreq(freq_khz) THEN freq
    ELSE [c \in Cores |->
            IF c \in GetOnlineCores(on) /\ Written(c, out) THEN freq_khz ELSE freq[c]]

\* ---------------------------------------------------------------- GPUManager
\* (ValidPowerNoUpper: only the lower bound is tested.)
ValidPowerNoUpper(power_w) == ~(power_w < MinPowerW)

\* The sanity check of set_power_limit.
ValidPower(power_w) == ~(power_w < MinPowerW \/ power_w > MaxPowerW)

\* Whether set_power_limit runs `nvidia-smi -pl`.
InvokesTool(avail, power_w) == avail /\ ValidPower(power_w)

\* set_power_limit: the limit after the call (tenths of a watt).
SetPowerLimit(limit, avail, power_w, out) ==
    IF InvokesTool(avail, power_w) /\ out.kind = "ok" THEN power_w * 10 ELSE limit

\* ------------------------------------------------------------------ Snapshot
\* dump: the captured state.  machine_id, on_ac_power and the GPU clocks are
\* left out: nothing replays them.  A value that reads as None is 0 or "",
\* which restore's truth tests treat alike.
Dump(ts, on, gov, freq, limit, avail) ==
    [ timestamp |-> ts,
      cpu |-> [ online_cores |-> GetOnlineCores(on),
                governor |-> gov[0],
                max_freq_khz |-> freq[0] ],
      gpu |-> IF avail THEN [available |-> TRUE, power_limit_w |-> limit]
              ELSE [available |-> FALSE] ]

\* The capture command p makes now; its timestamp is the command's number.
DumpNow(p) == Dump(cmd'[p].id, online, scaling_governor, scaling_max_freq,
                   gpu_power_limit, nvidia_smi)

\* save: the file after json.dump.  "open_failed": open() raised, the old file
\* stays.  "write_failed": the write raised after open() truncated the file.
SaveOutcomes == {"ok", "open_failed", "write_failed"}
Save(file, snapshot, out) ==
    CASE out = "ok" -> File(snapshot)
      [] out = "open_failed" -> file
      [] OTHER -> Corrupt

\* load: None for a missing or unparsable file.
Loadable(file) == file.kind = "json"

\* int(gpu["power_limit_w"]) of restore: a float's truncation.
IntOf(tenths) == tenths \div 10

\* The truth tests of restore: which fields it replays.
RestoresCores(s) == "cpu" \in DOMAIN s /\ "online_cores" \in DOMAIN s.cpu
                    /\ s.cpu.online_cores # {}
\* (RestoresGovernorIfKey: the key is tested, not the value's truth.)
RestoresGovernorIfKey(s) == "cpu" \in DOMAIN s /\ "governor" \in DOMAIN s.cpu
RestoresGovernor(s) == "cpu" \in DOMAIN s /\ "governor" \in DOMAIN s.cpu
                       /\ s.cpu.governor # ""
RestoresMaxFreq(s) == "cpu" \in DOMAIN s /\ "max_freq_khz" \in DOMAIN s.cpu
                      /\ s.cpu.max_freq_khz # 0
RestoresPower(s) == "gpu" \in DOMAIN s /\ "available" \in DOMAIN s.gpu
                    /\ s.gpu.available
                    /\ "power_limit_w" \in DOMAIN s.gpu /\ s.gpu.power_limit_w # 0

\* --------------------------------------------------------------- ModeManager
\* load_modes and the lookup of apply_mode: `not modes or mode_name not in modes`.
ModeFound(file, name) ==
    /\ Loadable(file)
    /\ DOMAIN file.doc # {}
    /\ name \in DOMAIN file.doc

\* Which settings of a mode apply_mode writes.
AppliesCores(m) == "cpu" \in DOMAIN m /\ "online_cores" \in DOMAIN m.cpu
                   /\ m.cpu.online_cores # {}
AppliesGovernor(m) == "cpu" \in DOMAIN m /\ "governor" \in DOMAIN m.cpu
AppliesMaxFreq(m) == "cpu" \in DOMAIN m /\ "max_freq_mhz" \in DOMAIN m.cpu

\* max_freq_mhz * 1000 of a string is a string, and set_max_freq's comparison
\* of it with 400000 raises TypeError before any write.
FreqRaises(m) == AppliesMaxFreq(m) /\ m.cpu.max_freq_mhz.type # "int"
\* (FreqKHzUnscaled: the MHz value is passed on as it is.)
FreqKHzUnscaled(m) == m.cpu.max_freq_mhz.val
FreqKHz(m) == m.cpu.max_freq_mhz.val * 1000
AppliesPower(m, avail) == "gpu" \in DOMAIN m /\ avail /\ "power_limit_w" \in DOMAIN m.gpu

\* get_active_mode: None ("") for a missing or unparsable active.json.
GetActiveMode(file) == IF Loadable(file) THEN file.doc.mode ELSE ""

\* ------------------------------------------------------------ bookkeeping
NoSnap == [timestamp |-> 0]
NoMode == [description |-> ""]
NoCmd == [op |-> "none", name |-> "", id |-> 0, alone |-> TRUE]
NoCpu == [online_cores |-> {}, governor |-> "", max_freq_khz |-> 0]
NoSummary == [op |-> "none", ret |-> "", failed |-> {}, cpu |-> NoCpu]
NoShown == [command |-> "none"]

\* What a snapshot compares: the CPU fields a capture reads.
CpuOf(on, gov, freq) ==
    [ online_cores |-> GetOnlineCores(on), governor |-> gov[0], max_freq_khz |-> freq[0] ]
CpuNow == CpuOf(online, scaling_governor, scaling_max_freq)

\* What a capture would return now, timestamp aside.
StateNow ==
    [ cpu |-> CpuNow,
      gpu |-> IF nvidia_smi THEN [available |-> TRUE, power_limit_w |-> gpu_power_limit]
              ELSE [available |-> FALSE] ]


\* What the command p ran leaves for the next one to look back on.
Summary(p) ==
    [ op |-> cmd[p].op, ret |-> ret[p], failed |-> failed[p],
      cpu |-> IF cmd[p].op = "apply" /\ ret[p] = "True" THEN before[p].cpu ELSE NoCpu ]

\* The environment may inject one more failure.
CanFail == ~reliable /\ faults < MaxFaults
\* Two invocations at once run no more than themselves and one later command.
OpsLimit ==
    IF procs = AllProcs THEN Cardinality(AllProcs) + 1
    ELSE IF reliable THEN MaxOps + 1 ELSE MaxOps
Allowed(targets) == {OkOutcome} \cup (IF CanFail THEN FailOutcomes(targets) ELSE {})
AllowedSaves == IF CanFail THEN SaveOutcomes ELSE {"ok"}

\* No invocation of ps is in the middle of a command.
NoneRunning(ps) == \A q \in ps : pc[q] \in {"idle", "done"}

\* A command starts: its history is reset.  `alone` notes whether every other
\* invocation was between commands at that moment.
Begin(p, op, name) ==
    /\ p \in procs
    /\ pc[p] \in {"idle", "done"}
    /\ p \in OneShot => pc[p] = "idle"
    /\ ops < OpsLimit
    /\ ops' = ops + 1
    /\ cmd' = [cmd EXCEPT ![p] = [op |-> op, name |-> name, id |-> ops + 1,
                                  alone |-> NoneRunning(procs \ {p})]]
    /\ prev' = IF pc[p] = "done" THEN Summary(p) ELSE prev
    /\ raised' = [raised EXCEPT ![p] = FALSE]
    /\ before' = [before EXCEPT ![p] = StateNow]
    /\ ran' = ran \cup {op}
    /\ shown' = [shown EXCEPT ![p] = NoShown]

\* A step that moves on to step s of the same command.
Goto(p, s) ==
    /\ pc' = [pc EXCEPT ![p] = s]
    /\ UNCHANGED <<ret, rollback, since, retSeen>>

\* The first step of a command that goes on to step s: nothing returned yet.
Enter(p, s) ==
    /\ pc' = [pc EXCEPT ![p] = s]
    /\ ret' = [ret EXCEPT ![p] = ""]
    /\ rollback' = [rollback EXCEPT ![p] = "none"]
    /\ UNCHANGED <<since, retSeen>>

\* The command returns r; rb is how its rollback (or replay) went.
Finish(p, r, rb) ==
    /\ pc' = [pc EXCEPT ![p] = "done"]
    /\ ret' = [ret EXCEPT ![p] = r]
    /\ rollback' = [rollback EXCEPT ![p] = rb]
    /\ since' = CASE cmd'[p].op = "apply" /\ r = "True" -> cmd'[p].name
                  [] cmd'[p].op = "restore" /\ r = "True" -> ""
                  [] OTHER -> since
    /\ retSeen' = IF cmd'[p].op = "apply" /\ rb \in {"ok", "failed"}
                  THEN [retSeen EXCEPT ![rb] = @ \cup {r}]
                  ELSE retSeen

\* What a step's outcome adds to the command's history.
Note(p, faulted, fails, eff) ==
    /\ faults' = IF faulted THEN faults + 1 ELSE faults
    /\ failed' = [failed EXCEPT ![p] = @ \cup fails]
    /\ failedEver' = failedEver \cup fails
    /\ effects' = [effects EXCEPT ![p] = @ \cup eff]

\* A manager call of kind "hw" or "gpu" with outcome out.
NoteWrite(p, out, kind) ==
    Note(p, out.kind # "ok", IF out.kind = "skip" THEN {kind} ELSE {}, {kind})

\* A write of the file of kind "backup" or "active"; `more` is what else it did.
NoteSave(p, out, kind, more) ==
    Note(p, out # "ok", IF out = "ok" THEN {} ELSE {kind},
         (IF out = "open_failed" THEN {} ELSE {kind}) \cup more)

\* A step that calls nothing.
NoteNothing(p) == Note(p, FALSE, {}, {})

\* --------------------------------------------------------------- apply_mode
\* The order of apply_mode's steps once the mode is found, and of restore's.
\* (ApplyOrderLate: the backup is taken after the cores were switched.)
ApplyOrderLate == <<"cores", "backup", "governor", "max_freq", "gpu", "record">>
ApplyOrder == <<"backup", "cores", "governor", "max_freq", "gpu", "record">>
\* (RestoreOrderGovernorFirst: restore sets the governor before the cores.)
RestoreOrderGovernorFirst == <<"r_governor", "r_cores", "r_max_freq", "r_gpu">>
RestoreOrder == <<"r_cores", "r_governor", "r_max_freq", "r_gpu">>

Position(order, s) == CHOOSE i \in 1 .. Len(order) : order[i] = s
StepAfter(order, s) == order[Position(order, s) + 1]
IsLast(order, s) == Position(order, s) = Len(order)

\* (StartApplyBackupFirst: the lookup's result is not tested before the backup.)
StartApplyBackupFirst(p, name) ==
    /\ euid = 0
    /\ Begin(p, "apply", name)
    /\ UNCHANGED <<hwvars, filevars, procs, faults, failedEver, baseline, reliable, euid>>
    /\ snap' = [snap EXCEPT ![p] = NoSnap]
    /\ pre' = [pre EXCEPT ![p] = NoSnap]
    /\ failed' = [failed EXCEPT ![p] = {}]
    /\ effects' = [effects EXCEPT ![p] = {}]
    /\ mode' = [mode EXCEPT ![p] = IF ModeFound(modes_file, name)
                                   THEN modes_file.doc[name] ELSE NoMode]
    /\ Enter(p, ApplyOrder[1])

\* `apply <name>` by root: the lookup.  An unknown name returns False at once.
StartApply(p, name) ==
    /\ euid = 0
    /\ Begin(p, "apply", name)
    /\ UNCHANGED <<hwvars, filevars, procs, faults, failedEver, baseline, reliable, euid>>
    /\ snap' = [snap EXCEPT ![p] = NoSnap]
    /\ pre' = [pre EXCEPT ![p] = NoSnap]
    /\ failed' = [failed EXCEPT ![p] = {}]
    /\ effects' = [effects EXCEPT ![p] = {}]
    /\ IF ModeFound(modes_file, name)
       THEN /\ mode' = [mode EXCEPT ![p] = modes_file.doc[name]]
            /\ Enter(p, ApplyOrder[1])
       ELSE /\ mode' = [mode EXCEPT ![p] = NoMode]
            /\ Finish(p, "False", "none")

\* (SaveBackupFromStart: the snapshot persisted is the one read when the
\* command started.)
SaveBackupFromStart(p) ==
    /\ pc[p] = "backup"
    /\ UNCHANGED <<hwvars, modes_file, active_file, procs, cmd, mode, snap,
                   raised, ops, shown, prev, baseline, reliable, euid, before, ran>>
    /\ \E out \in AllowedSaves :
        /\ backup_file' = Save(backup_file,
                               [timestamp |-> cmd[p].id, cpu |-> before[p].cpu,
                                gpu |-> before[p].gpu], out)
        /\ NoteSave(p, out, "backup", IF nvidia_smi THEN {"gpu_query"} ELSE {})
    /\ pre' = [pre EXCEPT ![p] = [timestamp |-> cmd[p].id, cpu |-> before[p].cpu,
                                  gpu |-> before[p].gpu]]
    /\ Goto(p, StepAfter(ApplyOrder, "backup"))

\* Step 1: self.snapshot.save(self.backup_path).
SaveBackup(p) ==
    /\ pc[p] = "backup"
    /\ UNCHANGED <<hwvars, modes_file, active_file, procs, cmd, mode, snap,
                   raised, ops, shown, prev, baseline, reliable, euid, before, ran>>
    /\ \E out \in AllowedSaves :
        /\ backup_file' = Save(backup_file, DumpNow(p), out)
        /\ NoteSave(p, out, "backup", IF nvidia_smi THEN {"gpu_query"} ELSE {})
    /\ pre' = [pre EXCEPT ![p] = DumpNow(p)]
    /\ Goto(p, StepAfter(ApplyOrder, "backup"))

\* (AfterStepSwallow: the exception is caught inside the step and apply goes on.)
AfterStepSwallow(p, out, s) ==
    /\ raised' = [raised EXCEPT ![p] = @ \/ out.kind = "raise"]
    /\ Goto(p, StepAfter(ApplyOrder, s))

\* Where a step of the try block goes next.
AfterStep(p, out, s) ==
    /\ raised' = [raised EXCEPT ![p] = @ \/ out.kind = "raise"]
    /\ Goto(p, IF out.kind = "raise" THEN "rollback" ELSE StepAfter(ApplyOrder, s))

\* Step 2, cpu: set_online_cores for an explicit non-empty list.
ApplyCores(p) ==
    /\ pc[p] = "cores"
    /\ UNCHANGED <<scaling_governor, scaling_max_freq, gpu_power_limit, nvidia_smi,
                   filevars, procs, cmd, mode, snap, pre,
                   ops, shown, prev, baseline, reliable, euid, before, ran>>
    /\ IF AppliesCores(mode[p])
       THEN \E out \in Allowed(Cores \ {0}) :
               /\ online' = SetOnlineCores(online, mode[p].cpu.online_cores, out)
               /\ NoteWrite(p, out, "hw")
               /\ AfterStep(p, out, "cores")
       ELSE /\ online' = online
            /\ NoteNothing(p)
            /\ AfterStep(p, OkOutcome, "cores")

\* Step 2, cpu: set_governor.
ApplyGovernor(p) ==
    /\ pc[p] = "governor"
    /\ UNCHANGED <<online, scaling_max_freq, gpu_power_limit, nvidia_smi,
                   filevars, procs, cmd, mode, snap, pre,
                   ops, shown, prev, baseline, reliable, euid, before, ran>>
    /\ IF AppliesGovernor(mode[p])
       THEN \E out \in Allowed(GetOnlineCores(online)) :
               /\ scaling_governor' =
                     SetGovernor(scaling_governor, online, mode[p].cpu.governor, out)
               /\ NoteWrite(p, out, "hw")
               /\ AfterStep(p, out, "governor")
       ELSE /\ scaling_governor' = scaling_governor
            /\ NoteNothing(p)
            /\ AfterStep(p, OkOutcome, "governor")

\* Step 2, cpu: set_max_freq(max_freq_mhz * 1000).
ApplyMaxFreq(p) ==
    /\ pc[p] = "max_freq"
    /\ UNCHANGED <<online, scaling_governor, gpu_power_limit, nvidia_smi,
                   filevars, procs, cmd, mode, snap, pre,
                   ops, shown, prev, baseline, reliable, euid, before, ran>>
    /\ IF FreqRaises(mode[p])
       THEN /\ scaling_max_freq' = scaling_max_freq
            /\ NoteNothing(p)
            /\ AfterStep(p, [kind |-> "raise", core |-> 0], "max_freq")
       ELSE IF AppliesMaxFreq(mode[p]) /\ ValidFreq(FreqKHz(mode[p]))
       THEN \E out \in Allowed(GetOnlineCores(online)) :
               /\ scaling_max_freq' = SetMaxFreq(scaling_max_freq, online,
                                                 FreqKHz(mode[p]), out)
               /\ NoteWrite(p, out, "hw")
               /\ AfterStep(p, out, "max_freq")
       ELSE /\ scaling_max_freq' = scaling_max_freq
            /\ NoteNothing(p)
            /\ AfterStep(p, OkOutcome, "max_freq")

\* Step 2, gpu: set_power_limit; set_clock_limits only warns.
ApplyGpu(p) ==
    /\ pc[p] = "gpu"
    /\ UNCHANGED <<online, scaling_governor, scaling_max_freq, nvidia_smi,
                   filevars, procs, cmd, mode, snap, pre,
                   ops, shown, prev, baseline, reliable, euid, before, ran>>
    /\ IF AppliesPower(mode[p], nvidia_smi)
          /\ InvokesTool(nvidia_smi, mode[p].gpu.power_limit_w)
       THEN \E out \in Allowed({0}) :
               /\ gpu_power_limit' = SetPowerLimit(gpu_power_limit, nvidia_smi,
                                                   mode[p].gpu.power_limit_w, out)
               /\ NoteWrite(p, out, "gpu")
               /\ AfterStep(p, out, "gpu")
       ELSE /\ gpu_power_limit' = gpu_power_limit
            /\ NoteNothing(p)
            /\ AfterStep(p, OkOutcome, "gpu")

\* The document _record_active_mode writes; its timestamp and config_path are
\* left out: nothing reads them.
\* (ActiveDocConfigPath: the config path lands in the "mode" field.)
ActiveDocConfigPath(name) == [mode |-> "modes.json"]
ActiveDoc(name) == [mode |-> name]

\* Step 3: _record_active_mode, then return True.
RecordActive(p) ==
    /\ pc[p] = "record"
    /\ UNCHANGED <<hwvars, modes_file, backup_file, procs, cmd, mode, snap,
                   pre, raised, ops, shown, prev, baseline, reliable, euid, before, ran>>
    /\ \E out \in AllowedSaves :
        /\ active_file' = Save(active_file, ActiveDoc(cmd[p].name), out)
        /\ NoteSave(p, out, "active", {})
    /\ Finish(p, "True", "none")

\* The except block: load the backup and, when it loads, replay it.
Rollback(p) ==
    /\ pc[p] = "rollback"
    /\ UNCHANGED <<hwvars, filevars, procs, cmd, mode, pre, raised,
                   effects, failed, failedEver, ops, shown, faults, prev, baseline, reliable, euid, before, ran>>
    /\ IF Loadable(backup_file)
       THEN /\ snap' = [snap EXCEPT ![p] = backup_file.doc]
            /\ Goto(p, RestoreOrder[1])
       ELSE /\ snap' = snap
            /\ Finish(p, "False", "noload")

\* --------------------------------------------------------- Snapshot.restore
\* restore's own except block: an exception ends the replay, restore returns
\* False and the writes already made stay.
\* (AfterRestoreNoClear: restore_backup returns without clearing the record.)
AfterRestoreNoClear(p) ==
    Finish(p, IF cmd[p].op = "apply" THEN "False" ELSE "True", "ok")

\* restore returned True.  apply_mode drops the value and returns False;
\* restore_backup goes on to clear the active mode; a direct caller gets True.
AfterRestore(p) ==
    CASE cmd[p].op = "apply" -> Finish(p, "False", "ok")
      [] cmd[p].op = "restore" -> Goto(p, "clear")
      [] OTHER -> Finish(p, "True", "ok")

\* (AfterReplayGoesOn: the exception is caught inside the step and the replay
\* goes on with the next step.)
AfterReplayGoesOn(p, out, s) ==
    IF IsLast(RestoreOrder, s)
    THEN AfterRestore(p)
    ELSE Goto(p, StepAfter(RestoreOrder, s))

\* (AfterReplayRecoversAgain: an exception in the replay starts the except
\* block of apply_mode once more.)
AfterReplayRecoversAgain(p, out, s) ==
    IF out.kind = "raise"
    THEN Goto(p, "rollback")
    ELSE IF IsLast(RestoreOrder, s)
    THEN AfterRestore(p)
    ELSE Goto(p, StepAfter(RestoreOrder, s))

\* Where a step of restore's try block goes next.
AfterReplay(p, out, s) ==
    IF out.kind = "raise"
    THEN Finish(p, "False", "failed")
    ELSE IF IsLast(RestoreOrder, s)
    THEN AfterRestore(p)
    ELSE Goto(p, StepAfter(RestoreOrder, s))

RestoreCores(p) ==
    /\ pc[p] = "r_cores"
    /\ UNCHANGED <<scaling_governor, scaling_max_freq, gpu_power_limit, nvidia_smi,
                   filevars, procs, cmd, mode, snap, pre, raised,
                   ops, shown, prev, baseline, reliable, euid, before, ran>>
    /\ IF RestoresCores(snap[p])
       THEN \E out \in Allowed(Cores \ {0}) :
               /\ online' = SetOnlineCores(online, snap[p].cpu.online_cores, out)
               /\ NoteWrite(p, out, "hw")
               /\ AfterReplay(p, out, "r_cores")
       ELSE /\ online' = online
            /\ NoteNothing(p)
            /\ AfterReplay(p, OkOutcome, "r_cores")

RestoreGovernor(p) ==
    /\ pc[p] = "r_governor"
    /\ UNCHANGED <<online, scaling_max_freq, gpu_power_limit, nvidia_smi,
                   filevars, procs, cmd, mode, snap, pre, raised,
                   ops, shown, prev, baseline, reliable, euid, before, ran>>
    /\ IF RestoresGovernor(snap[p])
       THEN \E out \in Allowed(GetOnlineCores(online)) :
               /\ scaling_governor' =
                     SetGovernor(scaling_governor, online, snap[p].cpu.governor, out)
               /\ NoteWrite(p, out, "hw")
               /\ AfterReplay(p, out, "r_governor")
       ELSE /\ scaling_governor' = scaling_governor
            /\ NoteNothing(p)
            /\ AfterReplay(p, OkOutcome, "r_governor")

RestoreMaxFreq(p) ==
    /\ pc[p] = "r_max_freq"
    /\ UNCHANGED <<online, scaling_governor, gpu_power_limit, nvidia_smi,
                   filevars, procs, cmd, mode, snap, pre, raised,
                   ops, shown, prev, baseline, reliable, euid, before, ran>>
    /\ IF RestoresMaxFreq(snap[p]) /\ ValidFreq(snap[p].cpu.max_freq_khz)
       THEN \E out \in Allowed(GetOnlineCores(online)) :
               /\ scaling_max_freq' = SetMaxFreq(scaling_max_freq, online,
                                                 snap[p].cpu.max_freq_khz, out)
               /\ NoteWrite(p, out, "hw")
               /\ AfterReplay(p, out, "r_max_freq")
       ELSE /\ scaling_max_freq' = scaling_max_freq
            /\ NoteNothing(p)
            /\ AfterReplay(p, OkOutcome, "r_max_freq")

RestoreGpu(p) ==
    /\ pc[p] = "r_gpu"
    /\ UNCHANGED <<online, scaling_governor, scaling_max_freq, nvidia_smi,
                   filevars, procs, cmd, mode, snap, pre, raised,
                   ops, shown, prev, baseline, reliable, euid, before, ran>>
    /\ IF RestoresPower(snap[p])
          /\ InvokesTool(nvidia_smi, IntOf(snap[p].gpu.power_limit_w))
       THEN \E out \in Allowed({0}) :
               /\ gpu_power_limit' = SetPowerLimit(gpu_power_limit, nvidia_smi,
                                         IntOf(snap[p].gpu.power_limit_w), out)
               /\ NoteWrite(p, out, "gpu")
               /\ AfterReplay(p, out, "r_gpu")
       ELSE /\ gpu_power_limit' = gpu_power_limit
            /\ NoteNothing(p)
            /\ AfterReplay(p, OkOutcome, "r_gpu")

\* ----------------------------------------------------------- restore_backup
\* (StartRestoreClearsFirst: the active record is removed before the load.)
StartRestoreClearsFirst(p) ==
    /\ euid = 0
    /\ Begin(p, "restore", "")
    /\ UNCHANGED <<hwvars, modes_file, backup_file, procs, faults, failedEver,
                   baseline, reliable, euid>>
    /\ active_file' = NoFile
    /\ mode' = [mode EXCEPT ![p] = NoMode]
    /\ pre' = [pre EXCEPT ![p] = NoSnap]
    /\ failed' = [failed EXCEPT ![p] = {}]
    /\ effects' = [effects EXCEPT ![p] = {}]
    /\ IF Loadable(backup_file)
       THEN /\ snap' = [snap EXCEPT ![p] = backup_file.doc]
            /\ Enter(p, RestoreOrder[1])
       ELSE /\ snap' = [snap EXCEPT ![p] = NoSnap]
            /\ Finish(p, "False", "noload")

\* `restore-backup` by root: load the backup; without one, return False.
StartRestore(p) ==
    /\ euid = 0
    /\ Begin(p, "restore", "")
    /\ UNCHANGED <<hwvars, filevars, procs, faults, failedEver, baseline, reliable, euid>>
    /\ mode' = [mode EXCEPT ![p] = NoMode]
    /\ pre' = [pre EXCEPT ![p] = NoSnap]
    /\ failed' = [failed EXCEPT ![p] = {}]
    /\ effects' = [effects EXCEPT ![p] = {}]
    /\ IF Loadable(backup_file)
       THEN /\ snap' = [snap EXCEPT ![p] = backup_file.doc]
            /\ Enter(p, RestoreOrder[1])
       ELSE /\ snap' = [snap EXCEPT ![p] = NoSnap]
            /\ Finish(p, "False", "noload")

\* (ClearActiveConsumesBackup: backup.json is removed with the active record.)
ClearActiveConsumesBackup(p) ==
    /\ pc[p] = "clear"
    /\ UNCHANGED <<hwvars, modes_file, procs, cmd, mode, snap,
                   pre, raised, ops, shown, prev, baseline, reliable, euid, before, ran>>
    /\ active_file' = NoFile
    /\ backup_file' = NoFile
    /\ Note(p, FALSE, {}, {"active", "backup"})
    /\ Finish(p, "True", "ok")

\* _clear_active_mode, then return success.  os.remove may fail: logged only.
ClearActive(p) ==
    /\ pc[p] = "clear"
    /\ UNCHANGED <<hwvars, modes_file, backup_file, procs, cmd, mode, snap,
                   pre, raised, ops, shown, prev, baseline, reliable, euid, before, ran>>
    /\ \E removed \in (IF CanFail THEN BOOLEAN ELSE {TRUE}) :
        /\ active_file' = IF removed THEN NoFile ELSE active_file
        /\ Note(p, ~removed, IF removed THEN {} ELSE {"active"},
                IF removed /\ active_file # NoFile THEN {"active"} ELSE {})
    /\ Finish(p, "True", "ok")

\* ------------------------------------------------------ dump-current-params
\* PowerMode.dump_current_params: Snapshot.save to backup.json.
DumpCurrentParams(p) ==
    /\ Begin(p, "dump", "")
    /\ UNCHANGED <<hwvars, modes_file, active_file, procs, baseline, reliable, euid>>
    /\ mode' = [mode EXCEPT ![p] = NoMode]
    /\ snap' = [snap EXCEPT ![p] = NoSnap]
    /\ \E out \in AllowedSaves :
        /\ backup_file' = Save(backup_file, DumpNow(p), out)
        /\ faults' = IF out # "ok" THEN faults + 1 ELSE faults
        /\ failed' = [failed EXCEPT ![p] = IF out = "ok" THEN {} ELSE {"backup"}]
        /\ failedEver' = failedEver \cup (IF out = "ok" THEN {} ELSE {"backup"})
        /\ effects' = [effects EXCEPT ![p] =
              (IF out = "open_failed" THEN {} ELSE {"backup"})
              \cup (IF nvidia_smi THEN {"gpu_query"} ELSE {})]
    /\ pre' = [pre EXCEPT ![p] = NoSnap]
    /\ Finish(p, "None", "none")

\* ---------------------------------------------------------------------- main
\* The commands main refuses without root.
WriteCommands == {"apply", "restore-backup"}

\* `apply` or `restore-backup` by a caller that is not root: exit code 1
\* before the command runs.
Refuse(p, command) ==
    /\ euid # 0
    /\ Begin(p, "refused", command)
    /\ UNCHANGED <<hwvars, filevars, procs, faults, failedEver, baseline, reliable, euid>>
    /\ mode' = [mode EXCEPT ![p] = NoMode]
    /\ snap' = [snap EXCEPT ![p] = NoSnap]
    /\ pre' = [pre EXCEPT ![p] = NoSnap]
    /\ failed' = [failed EXCEPT ![p] = {}]
    /\ effects' = [effects EXCEPT ![p] = {}]
    /\ Finish(p, "exit 1", "none")

\* A read-only command prints `out` and changes nothing else.
Prints(p, command, out) ==
    /\ p \in procs
    /\ pc[p] \in {"idle", "done"}
    /\ shown' = [shown EXCEPT ![p] = [command |-> command, out |-> out]]
    /\ UNCHANGED <<hwvars, filevars, procs, pc, cmd, ret, mode, snap, opvars, histvars>>

\* (ShowCurrentParamsSaves: the command calls Snapshot.save, not Snapshot.dump.)
ShowCurrentParamsSaves(p) ==
    /\ p \in procs
    /\ pc[p] \in {"idle", "done"}
    /\ shown' = [shown EXCEPT ![p] = [command |-> "show-current-params", out |-> StateNow]]
    /\ backup_file' = File(Dump(ops, online, scaling_governor, scaling_max_freq,
                                gpu_power_limit, nvidia_smi))
    /\ UNCHANGED <<hwvars, modes_file, active_file, procs, pc, cmd, ret, mode, snap,
                   opvars, histvars>>

\* `show-current-params`: Snapshot.dump, printed.
ShowCurrentParams(p) == Prints(p, "show-current-params", StateNow)

\* `list-modes`: the catalog's names, none when it does not load.
ListModes(p) ==
    Prints(p, "list-modes", IF Loadable(modes_file) THEN DOMAIN modes_file.doc ELSE {})

\* `show-mode <name>`: the mode's document when the catalog has it.
ShowMode(p, name) ==
    Prints(p, "show-mode",
           IF ModeFound(modes_file, name) THEN modes_file.doc[name] ELSE NoMode)

\* `get-active-mode`: the recorded name, or "none".
PrintActiveMode(p) ==
    Prints(p, "get-active-mode",
           IF GetActiveMode(active_file) = "" THEN "none" ELSE GetActiveMode(active_file))

\* ------------------------------------------------------------ specification
\* The state before the first command: any hardware state, a base directory
\* with a catalog (or an unparsable one), no backup and no active record.
HwInit(limits) ==
    /\ online \in {[c \in Cores |-> TRUE], [c \in Cores |-> c = 0]}
    /\ \E g \in HwGovernors : scaling_governor = [c \in Cores |-> g]
    /\ \E f \in HwFreqs : scaling_max_freq = [c \in Cores |-> f]
    /\ nvidia_smi \in BOOLEAN
    /\ gpu_power_limit \in (IF nvidia_smi THEN limits ELSE {0})

FilesInit(invocations, catalogs) ==
    /\ modes_file \in catalogs
    /\ backup_file = NoFile
    /\ active_file = NoFile
    /\ procs = invocations
    /\ pc = [p \in AllProcs |-> "idle"]
    /\ cmd = [p \in AllProcs |-> NoCmd]
    /\ ret = [p \in AllProcs |-> ""]
    /\ shown = [p \in AllProcs |-> NoShown]
    /\ mode = [p \in AllProcs |-> NoMode]
    /\ snap = [p \in AllProcs |-> NoSnap]
    /\ pre = [p \in AllProcs |-> NoSnap]
    /\ raised = [p \in AllProcs |-> FALSE]
    /\ rollback = [p \in AllProcs |-> "none"]
    /\ effects = [p \in AllProcs |-> {}]
    /\ failed = [p \in AllProcs |-> {}]
    /\ before = [p \in AllProcs |-> StateNow]
    /\ ran = {}
    /\ failedEver = {}
    /\ reliable \in BOOLEAN
    /\ euid \in Uids
    /\ ops = 0
    /\ faults = 0
    /\ baseline = CpuNow
    /\ prev = NoSummary
    /\ since = ""
    /\ retSeen = [ok |-> {}, failed |-> {}]

RestInit(invocations) == FilesInit(invocations, {File(ModesDoc), Corrupt})

Init == HwInit(HwPowerLimits) /\ RestInit({"cli"})

Next ==
    \E p \in AllProcs :
        \/ \E name \in ModeNames : StartApply(p, name)
        \/ SaveBackup(p)
        \/ ApplyCores(p)
        \/ ApplyGovernor(p)
        \/ ApplyMaxFreq(p)
        \/ ApplyGpu(p)
        \/ RecordActive(p)
        \/ Rollback(p)
        \/ RestoreCores(p)
        \/ RestoreGovernor(p)
        \/ RestoreMaxFreq(p)
        \/ RestoreGpu(p)
        \/ StartRestore(p)
        \/ ClearActive(p)
        \/ DumpCurrentParams(p)
        \/ \E command \in WriteCommands : Refuse(p, command)

Spec == Init /\ [][Next]_vars

\* The whole command line in a reliable environment: the commands of Next and
\* the read-only ones, on hardware that may show a GPU power limit above 150 W.
InitCli == HwInit(HwPowerLimits \cup HighPowerLimits) /\ RestInit({"cli"}) /\ reliable

NextCli ==
    \/ Next
    \/ \E p \in AllProcs :
        \/ ShowCurrentParams(p)
        \/ ListModes(p)
        \/ \E name \in ModeNames : ShowMode(p, name)
        \/ PrintActiveMode(p)

CliSpec == InitCli /\ [][NextCli]_vars

\* Two invocations by root at once, in a reliable environment: apply and
\* restore-backup, their steps interleaved, on a machine without GPU tool that
\* starts with core 0 alone online.
InitConc ==
    /\ HwInit(HwPowerLimits) /\ RestInit(AllProcs)
    /\ ~nvidia_smi /\ online = [c \in Cores |-> c = 0]
    /\ \A c \in Cores : ValidFreq(scaling_max_freq[c])
    /\ reliable /\ euid = 0 /\ modes_file = File(ModesDoc)

NextConc ==
    \E p \in AllProcs :
        \/ \E name \in ModeNames : StartApply(p, name)
        \/ SaveBackup(p)
        \/ ApplyCores(p)
        \/ ApplyGovernor(p)
        \/ ApplyMaxFreq(p)
        \/ ApplyGpu(p)
        \/ RecordActive(p)
        \/ Rollback(p)
        \/ RestoreCores(p)
        \/ RestoreGovernor(p)
        \/ RestoreMaxFreq(p)
        \/ RestoreGpu(p)
        \/ StartRestore(p)
        \/ ClearActive(p)

ConcSpec == InitConc /\ [][NextConc]_vars

\* apply_mode alone, called by root on a machine with the GPU tool and a
\* catalog that loads, in an environment that may fail, and run to its end: a call that started takes its next step as long as it has one (the
\* method is sequential code and every manager call returns).
InitApply ==
    Init /\ euid = 0 /\ nvidia_smi /\ ~reliable /\ modes_file = File(ModesDoc)

ApplyStep(p) ==
    \/ SaveBackup(p)
    \/ ApplyCores(p)
    \/ ApplyGovernor(p)
    \/ ApplyMaxFreq(p)
    \/ ApplyGpu(p)
    \/ RecordActive(p)
    \/ Rollback(p)
    \/ RestoreCores(p)
    \/ RestoreGovernor(p)
    \/ RestoreMaxFreq(p)
    \/ RestoreGpu(p)

NextApply ==
    \E p \in AllProcs :
        \/ \E name \in ModeNames : StartApply(p, name)
        \/ ApplyStep(p)

ApplySpec ==
    InitApply /\ [][NextApply]_vars /\ \A p \in AllProcs : WF_vars(ApplyStep(p))

\* apply_mode called by root with the catalog of edge modes.
InitEdge ==
    HwInit(HwPowerLimits) /\ FilesInit({"cli"}, {File(EdgeModesDoc)}) /\ euid = 0

NextEdge ==
    \E p \in AllProcs :
        \/ \E name \in DOMAIN EdgeModesDoc : StartApply(p, name)
        \/ ApplyStep(p)

EdgeSpec == InitEdge /\ [][NextEdge]_vars

\* ------------------------------------------------- the managers called directly
\* A caller of CPUManager, GPUManager or Snapshot calls method fn with arg.
UnitCall(p, fn, arg) ==
    /\ p \in procs
    /\ pc[p] \in {"idle", "done"}
    /\ ops < OpsLimit
    /\ ops' = ops + 1
    /\ cmd' = [cmd EXCEPT ![p] = [op |-> fn, name |-> "", id |-> ops + 1, arg |-> arg]]
    /\ before' = [before EXCEPT ![p] = StateNow]
    /\ raised' = [raised EXCEPT ![p] = FALSE]
    /\ UNCHANGED <<filevars, procs, shown, mode, pre, prev, ran, baseline, reliable, euid>>

\* What a single manager call leaves in the call's history.
UnitNote(p, out, kind, wrote) ==
    /\ faults' = IF out.kind # "ok" THEN faults + 1 ELSE faults
    /\ failed' = [failed EXCEPT ![p] = IF out.kind = "skip" THEN {kind} ELSE {}]
    /\ failedEver' = failedEver \cup (IF out.kind = "skip" THEN {kind} ELSE {})
    /\ effects' = [effects EXCEPT ![p] = IF wrote THEN {kind} ELSE {}]
    /\ Finish(p, IF out.kind = "raise" THEN "raised" ELSE "None", "none")

\* The arguments the callers pass.
CoreLists == SUBSET Cores \cup {{0, MaxCore + 1}}
FreqArgs == {MinFreqKHz - 1, MinFreqKHz, MaxFreqKHz, MaxFreqKHz + 1}
PowerArgs == {MinPowerW - 1, MinPowerW, MaxPowerW, MaxPowerW + 1}

\* Snapshots a caller may hand to restore: complete, with null values, with
\* keys missing, with a GPU block that is not available.
SparseSnapshots ==
    { [ timestamp |-> 0,
        cpu |-> [online_cores |-> {0, 1}, governor |-> "powersave",
                 max_freq_khz |-> 2000000],
        gpu |-> [available |-> TRUE, power_limit_w |-> 1000] ],
      [ timestamp |-> 0,
        cpu |-> [online_cores |-> {}, governor |-> "", max_freq_khz |-> 0],
        gpu |-> [available |-> TRUE, power_limit_w |-> 0] ],
      [ timestamp |-> 0 ],
      [ timestamp |-> 0,
        cpu |-> [governor |-> "powersave"],
        gpu |-> [available |-> FALSE, power_limit_w |-> 1000] ],
      [ timestamp |-> 0,
        cpu |-> [online_cores |-> {0, 1}, max_freq_khz |-> 2000000],
        gpu |-> [available |-> TRUE] ] }

CallSetOnlineCores(p, cores) ==
    /\ UnitCall(p, "set_online_cores", cores)
    /\ UNCHANGED <<scaling_governor, scaling_max_freq, gpu_power_limit, nvidia_smi, snap>>
    /\ \E out \in Allowed(Cores \ {0}) :
        /\ online' = SetOnlineCores(online, cores, out)
        /\ UnitNote(p, out, "hw", TRUE)

CallSetMaxFreq(p, freq_khz) ==
    /\ UnitCall(p, "set_max_freq", freq_khz)
    /\ UNCHANGED <<online, scaling_governor, gpu_power_limit, nvidia_smi, snap>>
    /\ IF ValidFreq(freq_khz)
       THEN \E out \in Allowed(GetOnlineCores(online)) :
               /\ scaling_max_freq' = SetMaxFreq(scaling_max_freq, online, freq_khz, out)
               /\ UnitNote(p, out, "hw", TRUE)
       ELSE /\ scaling_max_freq' = SetMaxFreq(scaling_max_freq, online, freq_khz, OkOutcome)
            /\ UnitNote(p, OkOutcome, "hw", FALSE)

CallSetPowerLimit(p, power_w) ==
    /\ UnitCall(p, "set_power_limit", power_w)
    /\ UNCHANGED <<online, scaling_governor, scaling_max_freq, nvidia_smi, snap>>
    /\ IF InvokesTool(nvidia_smi, power_w)
       THEN \E out \in Allowed({0}) :
               /\ gpu_power_limit' = SetPowerLimit(gpu_power_limit, nvidia_smi, power_w, out)
               /\ UnitNote(p, out, "gpu", TRUE)
       ELSE /\ gpu_power_limit' = SetPowerLimit(gpu_power_limit, nvidia_smi, power_w, OkOutcome)
            /\ UnitNote(p, OkOutcome, "gpu", FALSE)

\* Snapshot.dump called directly: the capture is kept in `pre`.
CallDump(p) ==
    /\ p \in procs
    /\ pc[p] \in {"idle", "done"}
    /\ ops < OpsLimit
    /\ ops' = ops + 1
    /\ cmd' = [cmd EXCEPT ![p] = [op |-> "Snapshot.dump", name |-> "", id |-> ops + 1, arg |-> 0]]
    /\ before' = [before EXCEPT ![p] = StateNow]
    /\ raised' = [raised EXCEPT ![p] = FALSE]
    /\ pre' = [pre EXCEPT ![p] = DumpNow(p)]
    /\ effects' = [effects EXCEPT ![p] = IF nvidia_smi THEN {"gpu_query"} ELSE {}]
    /\ failed' = [failed EXCEPT ![p] = {}]
    /\ UNCHANGED <<hwvars, filevars, procs, shown, mode, snap, prev, ran, baseline,
                   reliable, euid, faults, failedEver>>
    /\ Finish(p, "dict", "none")

\* Snapshot.restore(snapshot) called directly; the replay's steps follow.
CallRestore(p, snapshot) ==
    /\ UnitCall(p, "Snapshot.restore", snapshot)
    /\ UNCHANGED <<hwvars, faults, failedEver>>
    /\ snap' = [snap EXCEPT ![p] = snapshot]
    /\ failed' = [failed EXCEPT ![p] = {}]
    /\ effects' = [effects EXCEPT ![p] = {}]
    /\ Enter(p, RestoreOrder[1])

InitMgr == Init /\ euid = 0 /\ modes_file = File(ModesDoc)

NextMgr ==
    \E p \in AllProcs :
        \/ \E cores \in CoreLists : CallSetOnlineCores(p, cores)
        \/ \E freq_khz \in FreqArgs : CallSetMaxFreq(p, freq_khz)
        \/ \E power_w \in PowerArgs : CallSetPowerLimit(p, power_w)
        \/ CallDump(p)
        \/ \E snapshot \in SparseSnapshots : CallRestore(p, snapshot)
        \/ RestoreCores(p)
        \/ RestoreGovernor(p)
        \/ RestoreMaxFreq(p)
        \/ RestoreGpu(p)

MgrSpec == InitMgr /\ [][NextMgr]_vars

\* ------------------------------------------------------------------ claims
Done(p) == pc[p] = "done"
Quiescent == \A p \in procs : pc[p] \in {"idle", "done"}

\* Command p is a restore_backup that returned success with no write failure,
\* right after an apply that returned success with no write failure.
RestoredAfterApply(p) ==
    /\ Done(p) /\ cmd[p].op = "restore" /\ ret[p] = "True" /\ failed[p] = {}
    /\ prev.op = "apply" /\ prev.ret = "True" /\ prev.failed = {}

\* C1: with no write failure, a successful apply followed by restore_backup
\* leaves core 0's governor, core 0's max frequency and the online-core set
\* equal to what a capture returned immediately before the apply.
C1_RestoreReturnsToPreApply ==
    \A p \in procs : RestoredAfterApply(p) => CpuNow = prev.cpu

\* C1 holds of every pre-apply state whose max frequency set_max_freq accepts.
C1_RestoreReturnsWhenFreqInRange ==
    \A p \in procs :
        RestoredAfterApply(p) /\ ValidFreq(prev.cpu.max_freq_khz) => CpuNow = prev.cpu

C1_Witness ==
    \E p \in procs :
        /\ RestoredAfterApply(p)
        /\ ValidFreq(prev.cpu.max_freq_khz)
        /\ snap[p].cpu.max_freq_khz # 2000000

\* C2: an apply whose step 2 raised returns False and writes no active record.
C2_RaisedApplyFails ==
    \A p \in procs :
        cmd[p].op = "apply" /\ raised[p] =>
            /\ ret[p] # "True"
            /\ "active" \notin effects[p]
            /\ Done(p) => ret[p] = "False"

C2_Witness ==
    \E p \in procs :
        /\ Done(p) /\ cmd[p].op = "apply" /\ raised[p] /\ ret[p] = "False"
        /\ rollback[p] = "failed"

\* An apply whose step 2 raised after hardware writes, whose backup write and
\* rollback writes did not fail, and whose rollback replayed to the end.
RolledBack(p) ==
    /\ Done(p) /\ cmd[p].op = "apply" /\ raised[p]
    /\ "hw" \in effects[p]
    /\ failed[p] = {}
    /\ rollback[p] = "ok"

\* C3: after such an apply the online-core set, governor and max frequency
\* equal the pre-apply snapshot's values.
C3_RollbackRestoresSnapshot ==
    \A p \in procs : RolledBack(p) => CpuNow = pre[p].cpu

\* The step starts an apply of a name the catalog lacks, or with a catalog
\* that does not load.
UnknownApply(p) ==
    /\ cmd'[p] # cmd[p]
    /\ cmd'[p].op = "apply"
    /\ ~Loadable(modes_file) \/ cmd'[p].name \notin DOMAIN modes_file.doc

\* C4: such an apply returns False in one step that writes no backup, issues
\* no hardware write or GPU tool call and leaves active.json unchanged.
C4_UnknownNameNoEffects ==
    [][\A p \in procs :
          UnknownApply(p) =>
              /\ pc'[p] = "done"
              /\ ret'[p] = "False"
              /\ effects'[p] = {}
              /\ UNCHANGED <<hwvars, filevars>>]_vars

C4_Witness ==
    \E p \in procs :
        /\ Done(p) /\ cmd[p].op = "apply" /\ cmd[p].name = "nonexistent"
        /\ Loadable(modes_file)
        /\ Loadable(backup_file)
        /\ ret[p] = "False"

\* C3 holds of every pre-apply state whose max frequency set_max_freq accepts.
C3_RollbackRestoresWhenFreqInRange ==
    \A p \in procs :
        RolledBack(p) /\ ValidFreq(pre[p].cpu.max_freq_khz) => CpuNow = pre[p].cpu

\* Command p is an apply that returned success / a restore_backup that
\* returned success right after an apply that returned success.
AppliedOk(p) == Done(p) /\ cmd[p].op = "apply" /\ ret[p] = "True"
RestoredOk(p) ==
    /\ Done(p) /\ cmd[p].op = "restore" /\ ret[p] = "True"
    /\ prev.op = "apply" /\ prev.ret = "True"

\* C5 as stated: the active record names n right after apply(n) returned
\* success, and is absent after a following restore_backup returned success.
C5_ActiveRecordFollows ==
    \A p \in procs :
        /\ AppliedOk(p) => GetActiveMode(active_file) = cmd[p].name
        /\ RestoredOk(p) => active_file = NoFile

\* C5 amended: the same, provided the command's own write (or removal) of
\* active.json did not fail.
C5_ActiveRecordFollowsUnlessWriteFailed ==
    \A p \in procs :
        "active" \notin failed[p] =>
            /\ AppliedOk(p) => GetActiveMode(active_file) = cmd[p].name
            /\ RestoredOk(p) => active_file = NoFile

C5_Witness ==
    \E p \in procs :
        /\ RestoredOk(p)
        /\ "active" \notin failed[p]
        /\ "active" \in effects[p]
        /\ active_file = NoFile

\* C6: in an apply of a known mode no hardware write precedes the backup
\* step, the snapshot it captures is the state the apply started from, and
\* when the persist did not fail backup.json holds that snapshot.
C6_BackupBeforeMutate ==
    \A p \in procs :
        cmd[p].op = "apply" =>
            /\ pc[p] = "backup" =>
                  /\ effects[p] \cap {"hw", "gpu"} = {}
                  /\ StateNow = before[p]
            /\ pre[p] # NoSnap =>
                  /\ [cpu |-> pre[p].cpu, gpu |-> pre[p].gpu] = before[p]
                  /\ "backup" \notin failed[p] => backup_file = File(pre[p])

C6_Witness ==
    \E p \in procs :
        /\ AppliedOk(p)
        /\ "hw" \in effects[p]
        /\ "backup" \notin failed[p]
        /\ backup_file = File(pre[p])
        /\ StateNow # before[p]

\* C7: with no I/O failure and only apply and restore_backup run, an absent
\* active record means the CPU fields equal the baseline before the first
\* apply.  Stated for baselines whose max frequency set_max_freq accepts,
\* where the round trip of C1 holds.
C7_AbsentRecordMeansBaseline ==
    Quiescent /\ faults = 0 /\ "dump" \notin ran /\ ValidFreq(baseline.max_freq_khz)
        /\ active_file = NoFile
    => CpuNow = baseline

\* C8 as stated: between commands get_active_mode returns the last apply that
\* returned success since the last restore_backup that returned success.
C8_ActiveModeIsLastApplied ==
    Quiescent => GetActiveMode(active_file) = since

\* C8 amended: the same, provided no write or removal of active.json failed.
C8_ActiveModeIsLastAppliedUnlessWriteFailed ==
    Quiescent /\ "active" \notin failedEver => GetActiveMode(active_file) = since

C8_Witness ==
    \E p \in procs :
        /\ Done(p) /\ cmd[p].op = "apply" /\ ret[p] = "False" /\ raised[p]
        /\ prev.op = "apply" /\ prev.ret = "True"
        /\ "active" \notin failedEver
        /\ since # ""
        /\ GetActiveMode(active_file) = since

\* C9: the value apply returns after a rollback that failed differs from the
\* value it returns after a rollback that succeeded.
C9_RollbackOutcomesDistinct ==
    retSeen.ok \cap retSeen.failed = {}

\* C10: the snapshot an apply's rollback replays is the one that apply's own
\* backup step captured.
C10_RollbackReplaysOwnSnapshot ==
    \A p \in procs :
        /\ cmd[p].op = "apply"
        /\ \/ pc[p] \in {RestoreOrder[i] : i \in 1 .. Len(RestoreOrder)}
           \/ Done(p) /\ rollback[p] \in {"ok", "failed"}
        => snap[p] = pre[p]

\* The step is command p's backup step / is p's dump-current-params.
IsBackupStep(p) == pc[p] = "backup" /\ pc'[p] # "backup"
IsDumpCommand(p) == cmd'[p] # cmd[p] /\ cmd'[p].op = "dump"

\* C11 as stated: backup.json changes only in apply's backup step.
C11_OnlyApplyWritesBackup ==
    [][backup_file' # backup_file => \E p \in procs : IsBackupStep(p)]_vars

\* C11 amended: backup.json changes only in apply's backup step and in
\* dump-current-params; restore_backup and the read-only commands leave it.
C11_OnlyApplyAndDumpWriteBackup ==
    [][backup_file' # backup_file =>
          \E p \in procs : IsBackupStep(p) \/ IsDumpCommand(p)]_vars

C11_Witness ==
    \E p \in procs :
        /\ Done(p) /\ cmd[p].op = "restore" /\ ret[p] = "True"
        /\ prev.op = "apply"
        /\ shown[p] # NoShown
        /\ backup_file = File(snap[p])

\* The step is a direct call of method fn by p.
Calls(p, fn) == cmd'[p] # cmd[p] /\ cmd'[p].op = fn

\* C12: set_max_freq(x) with x below 400000 or above 6000000 writes no core's
\* max frequency and leaves every core's value; with x = 400000 or 6000000
\* and no failing write it sets every online core to x.
C12_MaxFreqRangeCheck ==
    [][\A p \in procs :
          Calls(p, "set_max_freq") =>
              LET x == cmd'[p].arg IN
              /\ x < 400000 \/ x > 6000000 =>
                    /\ scaling_max_freq' = scaling_max_freq
                    /\ effects'[p] = {}
              /\ x \in {400000, 6000000} /\ faults' = faults =>
                    /\ effects'[p] = {"hw"}
                    /\ \A c \in GetOnlineCores(online) : scaling_max_freq'[c] = x]_vars

C12_Witness ==
    \E p \in procs :
        /\ Done(p) /\ cmd[p].op = "set_max_freq" /\ cmd[p].arg = 6000001
        /\ effects[p] = {}
        /\ scaling_max_freq[0] = 6000000

\* Command p's step is the GPU step of apply / of restore, and reaches
\* set_power_limit.
ApplyGpuStep(p) ==
    pc[p] = "gpu" /\ pc'[p] # "gpu" /\ AppliesPower(mode[p], nvidia_smi)
RestoreGpuStep(p) ==
    pc[p] = "r_gpu" /\ pc'[p] # "r_gpu" /\ RestoresPower(snap[p])
OutOfPowerRange(w) == w < 10 \/ w > 150
NoToolRun(p) ==
    /\ gpu_power_limit' = gpu_power_limit
    /\ "gpu" \in effects'[p] => "gpu" \in effects[p]

\* C13: set_power_limit(w) with w below 10 or above 150 does not run
\* nvidia-smi and leaves the power limit, on the apply path and on the restore
\* path, where w is the snapshot's value truncated to an integer.
C13_PowerLimitRangeCheck ==
    [][\A p \in procs :
          /\ ApplyGpuStep(p) /\ OutOfPowerRange(mode[p].gpu.power_limit_w)
                => NoToolRun(p)
          /\ RestoreGpuStep(p) /\ OutOfPowerRange(snap[p].gpu.power_limit_w \div 10)
                => NoToolRun(p)]_vars

C13_Witness ==
    \E p \in procs :
        /\ Done(p) /\ cmd[p].op = "restore" /\ ret[p] = "True"
        /\ RestoresPower(snap[p]) /\ snap[p].gpu.power_limit_w = 1555
        /\ prev.op = "apply" /\ prev.ret = "True"
        /\ "gpu" \notin effects[p]
        /\ gpu_power_limit = 1555

\* C14: set_online_cores(L), for L with core 0 and only known cores and with
\* no failing write, makes get_online_cores return L; the same call repeated
\* changes no online flag.
C14_OnlineCoresRoundTrip ==
    [][\A p \in procs :
          Calls(p, "set_online_cores") /\ 0 \in cmd'[p].arg /\ cmd'[p].arg \subseteq Cores
              /\ faults' = faults =>
              /\ GetOnlineCores(online') = cmd'[p].arg
              /\ cmd[p].op = "set_online_cores" /\ cmd[p].arg = cmd'[p].arg
                    /\ ret[p] = "None" /\ failed[p] = {}
                 => online' = online]_vars

C14_Witness ==
    \E p \in procs :
        /\ Done(p) /\ cmd[p].op = "set_online_cores" /\ cmd[p].arg = {0, 1}
        /\ ret[p] = "None" /\ failed[p] = {}
        /\ before[p].cpu.online_cores # {0, 1}
        /\ GetOnlineCores(online) = {0, 1}

\* The step starts a restore_backup that finds no loadable backup.json.
RestoreWithoutBackup(p) ==
    cmd'[p] # cmd[p] /\ cmd'[p].op = "restore" /\ ~Loadable(backup_file)

\* C15: restore_backup without a loadable backup returns False in one step
\* that writes no hardware and keeps active.json; and a restore_backup changes
\* active.json only in the step after a replay that ran to its end, returning
\* True.
C15_RestoreWithoutBackupKeepsAll ==
    [][\A p \in procs :
          /\ RestoreWithoutBackup(p) =>
                /\ pc'[p] = "done" /\ ret'[p] = "False"
                /\ effects'[p] = {}
                /\ UNCHANGED <<hwvars, filevars>>
          /\ cmd'[p].op = "restore" /\ active_file' # active_file =>
                /\ pc[p] = "clear"
                /\ ret'[p] = "True" /\ rollback'[p] = "ok"]_vars

C15_Witness ==
    \E p \in procs :
        /\ Done(p) /\ cmd[p].op = "restore" /\ ret[p] = "False"
        /\ rollback[p] = "noload"
        /\ ~Loadable(backup_file)
        /\ Loadable(active_file)

\* Another invocation is in the middle of an apply that already wrote hardware.
OtherApplyUnderWay(p) ==
    \E q \in procs \ {p} :
        /\ cmd[q].op = "apply"
        /\ pc[q] \in {"governor", "max_freq", "gpu", "record"}
        /\ "hw" \in effects[q]

\* C16: when an apply's backup step runs while another apply is under way,
\* the document it persists holds the hardware as the other apply has left it
\* so far, not as it was when the command started.
C16_BackupRecordsOtherApplysWrites ==
    [][\A p \in procs :
          IsBackupStep(p) /\ OtherApplyUnderWay(p) =>
              /\ backup_file' = File(pre'[p])
              /\ pre'[p].cpu = CpuNow]_vars

\* Reached: a restore_backup, started after both applies returned, that
\* returned True having replayed a backup
\* taken in the middle of another apply (turbo's cores online, governor and
\* frequency not yet written), so the hardware is not back at the baseline.
C16_Witness ==
    \E p \in procs :
        /\ Quiescent
        /\ Done(p) /\ cmd[p].op = "restore" /\ ret[p] = "True" /\ cmd[p].alone
        /\ \A q \in procs \ {p} : cmd[q].op = "apply" /\ ret[q] = "True"
        /\ baseline = [online_cores |-> {0}, governor |-> "schedutil",
                       max_freq_khz |-> 3000000]
        /\ snap[p].cpu = [online_cores |-> {0, 1}, governor |-> "schedutil",
                          max_freq_khz |-> 3000000]
        /\ CpuNow = snap[p].cpu

\* C17: an invocation without root changes no hardware setting, not
\* backup.json and not active.json.
C17_UnprivilegedMutatesNothing ==
    [][euid # 0 => UNCHANGED <<hwvars, backup_file, active_file>>]_vars

\* C18: cpu0's online flag is never cleared, get_online_cores contains 0 and
\* so does the online_cores of every snapshot captured.
C18_CoreZeroAlwaysOnline ==
    /\ online[0]
    /\ 0 \in GetOnlineCores(online)
    /\ \A p \in procs : pre[p] # NoSnap => 0 \in pre[p].cpu.online_cores

C18_Witness ==
    \E p \in procs :
        /\ Done(p) /\ cmd[p].op = "set_online_cores"
        /\ 0 \notin cmd[p].arg /\ cmd[p].arg # {}
        /\ ret[p] = "None" /\ failed[p] = {}
        /\ pre[p] # NoSnap
        /\ GetOnlineCores(online) = cmd[p].arg \cup {0}

\* Command p leaves step a for a step of `nexts`.
Leaves(p, a) == pc[p] = a /\ pc'[p] # a
Follows(p, a, nexts) == pc[p] = a => pc'[p] \in nexts \cup {a}

\* Every online core holds governor g / max frequency f after the step.
AllOnlineGovernor(g) == \A c \in GetOnlineCores(online') : scaling_governor'[c] = g
AllOnlineMaxFreq(f) == \A c \in GetOnlineCores(online') : scaling_max_freq'[c] = f

\* C19: apply and restore write in the order cores, governor, max frequency,
\* GPU limit: each setting changes only in its own step and the steps follow
\* one another in that order; a governor or max-frequency step changes no
\* offline core; and with no failing write, when the last step is left every
\* core then online holds the governor and max frequency written.
C19_WriteOrder ==
    [][\A p \in procs :
          /\ online' # online => pc[p] \in {"cores", "r_cores"}
          /\ scaling_governor' # scaling_governor => pc[p] \in {"governor", "r_governor"}
          /\ scaling_max_freq' # scaling_max_freq => pc[p] \in {"max_freq", "r_max_freq"}
          /\ gpu_power_limit' # gpu_power_limit => pc[p] \in {"gpu", "r_gpu"}
          /\ Follows(p, "cores", {"governor", "rollback"})
          /\ Follows(p, "governor", {"max_freq", "rollback"})
          /\ Follows(p, "max_freq", {"gpu", "rollback"})
          /\ Follows(p, "r_cores", {"r_governor", "done"})
          /\ Follows(p, "r_governor", {"r_max_freq", "done"})
          /\ Follows(p, "r_max_freq", {"r_gpu", "done"})
          /\ \A c \in Cores \ GetOnlineCores(online) :
                /\ scaling_governor'[c] = scaling_governor[c]
                /\ scaling_max_freq'[c] = scaling_max_freq[c]
          /\ Leaves(p, "gpu") /\ reliable =>
                /\ AppliesGovernor(mode[p]) => AllOnlineGovernor(mode[p].cpu.governor)
                /\ AppliesMaxFreq(mode[p]) =>
                      AllOnlineMaxFreq(mode[p].cpu.max_freq_mhz.val * 1000)
          /\ Leaves(p, "r_gpu") /\ reliable =>
                /\ snap[p].cpu.governor # "" => AllOnlineGovernor(snap[p].cpu.governor)
                /\ snap[p].cpu.max_freq_khz \in 400000 .. 6000000 =>
                      AllOnlineMaxFreq(snap[p].cpu.max_freq_khz)]_vars

\* Reached: turbo applied to a machine with core 0 alone online; core 1, put
\* online by the cores step, holds the new governor and frequency, core 2,
\* offline, holds the old ones.
C19_Witness ==
    \E p \in procs :
        /\ Done(p) /\ cmd[p].op = "apply" /\ ret[p] = "True" /\ reliable
        /\ before[p].cpu.online_cores = {0}
        /\ GetOnlineCores(online) = {0, 1}
        /\ scaling_governor[1] = "performance" /\ scaling_max_freq[1] = 5000000
        /\ scaling_governor[2] = "schedutil" /\ scaling_max_freq[2] # 5000000

\* A field of the snapshot is absent or null.
NoCoresIn(s) == "cpu" \notin DOMAIN s \/ "online_cores" \notin DOMAIN s.cpu
                \/ s.cpu.online_cores = {}
NoGovernorIn(s) == "cpu" \notin DOMAIN s \/ "governor" \notin DOMAIN s.cpu
                   \/ s.cpu.governor = ""
NoMaxFreqIn(s) == "cpu" \notin DOMAIN s \/ "max_freq_khz" \notin DOMAIN s.cpu
                  \/ s.cpu.max_freq_khz = 0
NoPowerIn(s) == "gpu" \notin DOMAIN s \/ ~s.gpu.available
                \/ "power_limit_w" \notin DOMAIN s.gpu \/ s.gpu.power_limit_w = 0

\* The step writes nothing and draws no write outcome.
WritesNothing(p) ==
    /\ effects'[p] = effects[p] /\ faults' = faults
    /\ UNCHANGED hwvars

\* C20: restore called with a snapshot writes nothing in the step of a field
\* that is absent or null (for the GPU limit: also when the gpu block is not
\* available), and when it returns that field's live value is what it was
\* when restore was called.
C20_RestoreIsSparse ==
    [][\A p \in procs :
          cmd[p].op = "Snapshot.restore" =>
              /\ Leaves(p, "r_cores") /\ NoCoresIn(snap[p]) => WritesNothing(p)
              /\ Leaves(p, "r_governor") /\ NoGovernorIn(snap[p]) => WritesNothing(p)
              /\ Leaves(p, "r_max_freq") /\ NoMaxFreqIn(snap[p]) => WritesNothing(p)
              /\ Leaves(p, "r_gpu") /\ NoPowerIn(snap[p]) => WritesNothing(p)
              /\ pc[p] # "done" /\ pc'[p] = "done" =>
                    /\ NoCoresIn(snap[p]) => online' = online
                          /\ GetOnlineCores(online') = before[p].cpu.online_cores
                    /\ NoGovernorIn(snap[p]) =>
                          scaling_governor'[0] = before[p].cpu.governor
                    /\ NoMaxFreqIn(snap[p]) =>
                          scaling_max_freq'[0] = before[p].cpu.max_freq_khz
                    /\ NoPowerIn(snap[p]) /\ nvidia_smi =>
                          gpu_power_limit' = before[p].gpu.power_limit_w]_vars

C20_Witness ==
    \E p \in procs :
        /\ Done(p) /\ cmd[p].op = "Snapshot.restore" /\ ret[p] = "True"
        /\ "cpu" \in DOMAIN snap[p] /\ "online_cores" \notin DOMAIN snap[p].cpu
        /\ ~snap[p].gpu.available
        /\ "hw" \in effects[p]
        /\ scaling_governor[0] = "powersave"
        /\ before[p].cpu.governor # "powersave"
        /\ CpuNow.online_cores = before[p].cpu.online_cores
        /\ CpuNow.max_freq_khz = before[p].cpu.max_freq_khz

\* The steps of Snapshot.restore, and the kind of write each of them makes.
RestoreSteps == {RestoreOrder[i] : i \in 1 .. Len(RestoreOrder)}
WriteKind(step) == IF step \in {"gpu", "r_gpu"} THEN "gpu" ELSE "hw"

\* The step is a step of restore in which a write raised an exception that
\* the manager does not catch (a failure was injected and not skipped).
RestoreRaises(p) ==
    /\ pc[p] \in RestoreSteps
    /\ faults' # faults
    /\ WriteKind(pc[p]) \notin failed'[p]

\* What the steps before step s of restore write.
EarlierWritesStay(s) ==
    /\ s \in {"r_governor", "r_max_freq", "r_gpu"} => online' = online
    /\ s \in {"r_max_freq", "r_gpu"} => scaling_governor' = scaling_governor
    /\ s = "r_gpu" => scaling_max_freq' = scaling_max_freq

\* C21: a step of restore that raises ends the command at once with the
\* value False (for restore_backup and for apply's rollback alike), changes
\* nothing an earlier step wrote and no file: no later step and no further
\* recovery follows.
C21_RestoreFailureIsFinal ==
    [][\A p \in procs :
          /\ RestoreRaises(p) =>
                /\ pc'[p] = "done"
                /\ ret'[p] = "False"
                /\ rollback'[p] = "failed"
                /\ EarlierWritesStay(pc[p])
                /\ effects[p] \subseteq effects'[p]
                /\ UNCHANGED filevars]_vars

\* Reached: a restore_backup after an apply whose cores step switched the
\* online set back, whose governor step raised, and which returned False with
\* the governor and the active record left as the apply set them.
C21_Witness ==
    \E p \in procs :
        /\ Done(p) /\ cmd[p].op = "restore" /\ ret[p] = "False"
        /\ rollback[p] = "failed"
        /\ prev.op = "apply" /\ prev.ret = "True"
        /\ CpuNow.online_cores = snap[p].cpu.online_cores
        /\ CpuNow.online_cores # before[p].cpu.online_cores
        /\ snap[p].cpu.governor # before[p].cpu.governor
        /\ scaling_governor[0] = before[p].cpu.governor
        /\ Loadable(active_file)

\* The step is apply's cores step, and one core's online write failed with
\* FileNotFoundError or PermissionError.
CoresWriteSkipped(p) ==
    /\ pc[p] = "cores" /\ AppliesCores(mode[p])
    /\ faults' # faults
    /\ "hw" \in failed'[p]

\* The step ends an apply that saw a hardware write fail and no exception.
AppliedDespiteSkips(p) ==
    /\ cmd[p].op = "apply" /\ pc[p] \notin {"idle", "done"} /\ pc'[p] = "done"
    /\ "hw" \in failed'[p] /\ ~raised'[p]

\* C22: when one core's online write fails in apply's cores step, cpu0 and
\* that core keep their flags, every other core's flag is written (1 if in the
\* mode's list, else 0) and apply goes on to the governor; an apply that saw
\* only such failures returns True.
C22_CoreFailureSkipped ==
    [][\A p \in procs :
          /\ CoresWriteSkipped(p) =>
                /\ pc'[p] = "governor" /\ ~raised'[p]
                /\ online'[0] = online[0]
                /\ \E k \in Cores \ {0} :
                      /\ online'[k] = online[k]
                      /\ \A c \in Cores \ {0, k} :
                            online'[c] = (c \in mode[p].cpu.online_cores)
          /\ AppliedDespiteSkips(p) => ret'[p] = "True"]_vars

\* Reached: turbo applied with every core online; the write to core 1 failed,
\* core 2 was still switched off, and apply returned True.
C22_Witness ==
    \E p \in procs :
        /\ AppliedOk(p) /\ cmd[p].name = "turbo"
        /\ failed[p] = {"hw"}
        /\ before[p].cpu.online_cores = Cores
        /\ GetOnlineCores(online) = {0, 1}
        /\ \A c \in {0, 1} : scaling_governor[c] = "performance"
                              /\ scaling_max_freq[c] = 5000000

\* The states of an apply: BACKING_UP is the backup step, APPLYING the steps of
\* the try block, ROLLING_BACK the except block and the replay it starts.
BackingUp == {"backup"}
Applying == {"cores", "governor", "max_freq", "gpu", "record"}
RollingBack == {"rollback"} \cup RestoreSteps

\* How far an apply has come.
Stage(step) ==
    CASE step = "idle" -> 0
      [] step \in BackingUp -> 1
      [] step \in Applying -> 2
      [] step \in RollingBack -> 3
      [] OTHER -> 4

\* Invocation p is in the middle of an apply.
ApplyRunning(p) == p \in procs /\ cmd[p].op = "apply" /\ pc[p] \notin {"idle", "done"}
ApplyReturned(p) == Done(p) /\ cmd[p].op = "apply" /\ ret[p] \in {"True", "False"}

\* C23: APPLYING is entered only from BACKING_UP; the except block is entered
\* only from APPLYING, in a step that raised, and the replay only from the
\* except block; a running apply never goes back to an earlier state, so it
\* rolls back at most once; it ends only from APPLYING
\* with True or from ROLLING_BACK with False; and an apply that is running
\* eventually returns True or False.
C23_ApplyStateMachine ==
    /\ [][\A p \in procs :
             /\ Stage(pc'[p]) = 2 => Stage(pc[p]) \in {1, 2}
             /\ pc'[p] = "rollback" =>
                   Stage(pc[p]) = 2 /\ ~raised[p] /\ raised'[p]
             /\ cmd'[p].op = "apply" /\ Stage(pc'[p]) = 3 /\ pc'[p] # "rollback" =>
                   Stage(pc[p]) = 3
             /\ ApplyRunning(p) =>
                   /\ Stage(pc'[p]) >= Stage(pc[p])
                   /\ cmd'[p] = cmd[p]
                   /\ pc'[p] = "done" =>
                         \/ Stage(pc[p]) = 2 /\ ret'[p] = "True"
                         \/ Stage(pc[p]) = 3 /\ ret'[p] = "False"]_vars
    /\ \A p \in AllProcs : ApplyRunning(p) ~> ApplyReturned(p)

\* Reached: an apply that went through all four states and returned False.
C23_Witness ==
    \E p \in procs :
        /\ ApplyReturned(p) /\ ret[p] = "False"
        /\ pre[p] # NoSnap
        /\ "hw" \in effects[p]
        /\ raised[p]
        /\ rollback[p] = "ok"

\* Every online core holds core 0's governor and max frequency.
OnlineCoresUniform ==
    \A c \in GetOnlineCores(online) :
        /\ scaling_governor[c] = scaling_governor[0]
        /\ scaling_max_freq[c] = scaling_max_freq[0]

\* C24: between commands, with no write failure so far, every online core
\* holds the governor and max frequency of core 0 (the hardware starts with
\* one governor and one max frequency on all cores).
C24_OnlineCoresUniform ==
    Quiescent /\ faults = 0 => OnlineCoresUniform

\* With this catalog, whose only mode that lists a core beyond core 0 also
\* gives governor and max frequency, C24 holds of every machine whose starting
\* max frequency set_max_freq accepts.
C24_OnlineCoresUniformWhenFreqInRange ==
    Quiescent /\ faults = 0 /\ ValidFreq(baseline.max_freq_khz) => OnlineCoresUniform

\* Command p is an apply that returned success and saw no write fail.
AppliedCleanly(p) == AppliedOk(p) /\ failed[p] = {}

\* The settings mode m names, as the claim reads them.
AsksCores(m) == "cpu" \in DOMAIN m /\ "online_cores" \in DOMAIN m.cpu
AsksGovernor(m) == "cpu" \in DOMAIN m /\ "governor" \in DOMAIN m.cpu
AsksMaxFreq(m) == "cpu" \in DOMAIN m /\ "max_freq_mhz" \in DOMAIN m.cpu
GovernorInEffect(m) ==
    AsksGovernor(m) =>
        \A c \in GetOnlineCores(online) : scaling_governor[c] = m.cpu.governor
MaxFreqInEffect(m) ==
    \A c \in GetOnlineCores(online) : scaling_max_freq[c] = m.cpu.max_freq_mhz.val * 1000

\* C25 as stated: after such an apply the online-core set is the mode's list
\* plus core 0 and every online core holds the mode's governor and its
\* max_freq_mhz times 1000.
C25_AppliedModeInEffect ==
    \A p \in procs :
        AppliedCleanly(p) =>
            /\ AsksCores(mode[p]) =>
                  GetOnlineCores(online) = mode[p].cpu.online_cores \cup {0}
            /\ GovernorInEffect(mode[p])
            /\ AsksMaxFreq(mode[p]) => MaxFreqInEffect(mode[p])

\* C25 amended: the online-core set is the known cores of the mode's list plus
\* core 0, and is left as it was for an empty list; every online core holds
\* the mode's governor; every online core holds max_freq_mhz times 1000 when
\* that is within 400000 .. 6000000 kHz, and core 0's max frequency is left as
\* it was otherwise.
C25_AppliedModeInEffectWhenAccepted ==
    \A p \in procs :
        AppliedCleanly(p) =>
            /\ AsksCores(mode[p]) =>
                  GetOnlineCores(online) =
                      IF mode[p].cpu.online_cores = {}
                      THEN before[p].cpu.online_cores
                      ELSE (mode[p].cpu.online_cores \cap Cores) \cup {0}
            /\ GovernorInEffect(mode[p])
            /\ AsksMaxFreq(mode[p]) =>
                  IF mode[p].cpu.max_freq_mhz.val * 1000 \in 400000 .. 6000000
                  THEN MaxFreqInEffect(mode[p])
                  ELSE scaling_max_freq[0] = before[p].cpu.max_freq_khz

\* Reached: overclock applied with success; cores and governor are in effect,
\* the max frequency is the one from before the apply.
C25_Witness ==
    \E p \in procs :
        /\ AppliedCleanly(p) /\ cmd[p].name = "overclock"
        /\ before[p].cpu.online_cores = Cores
        /\ GetOnlineCores(online) = {0, 1}
        /\ \A c \in {0, 1} : scaling_governor[c] = "performance"
        /\ scaling_max_freq[0] = before[p].cpu.max_freq_khz
        /\ scaling_max_freq[0] # 7000000

\* The step belongs to a restore_backup of p.
RestoreBackupStep(p) ==
    /\ cmd'[p].op = "restore"
    /\ cmd'[p] # cmd[p] \/ pc[p] \notin {"idle", "done"}

\* The step belongs to a restore_backup that follows directly on a
\* restore_backup that returned True with no write failure, and no write
\* fails in the step.
SecondRestoreStep(p) ==
    /\ RestoreBackupStep(p)
    /\ prev'.op = "restore" /\ prev'.ret = "True" /\ prev'.failed = {}
    /\ faults' = faults

\* C26: no step of restore_backup changes backup.json; and a restore_backup
\* right after one that succeeded changes no hardware setting and no file, the
\* active record being absent, and returns True.
C26_RestoreBackupIdempotent ==
    [][\A p \in procs :
          /\ RestoreBackupStep(p) => backup_file' = backup_file
          /\ SecondRestoreStep(p) =>
                /\ UNCHANGED <<hwvars, filevars>>
                /\ active_file = NoFile
                /\ pc'[p] = "done" => ret'[p] = "True"]_vars

\* Reached: apply, restore_backup, restore_backup; the second restore returned
\* True with the backup still the document it replayed and the hardware as
\* the first one left it.
C26_Witness ==
    \E p \in procs :
        /\ Done(p) /\ cmd[p].op = "restore" /\ ret[p] = "True" /\ failed[p] = {}
        /\ prev.op = "restore" /\ prev.ret = "True" /\ prev.failed = {}
        /\ "apply" \in ran
        /\ backup_file = File(snap[p])
        /\ active_file = NoFile
        /\ StateNow = before[p]
        /\ CpuNow.online_cores = snap[p].cpu.online_cores
        /\ scaling_governor[0] = "schedutil"
        /\ "hw" \in effects[p]
====
